---- MODULE Spec2Model ----
(***************************************************************************)
(* The request handlers of the AI agent platform (agents, chat sessions,   *)
(* text and voice messages) over one shared relational store.  Every       *)
(* request is an asyncio task with its own AsyncSession; the tasks         *)
(* interleave at each await, so each await that reaches the store or a     *)
(* gateway is one atomic step of the request that makes it.  A commit and  *)
(* the refresh that reads the committed row back are one step.             *)
(***************************************************************************)
EXTENDS Integers, Sequences, FiniteSets, TLC

\* Python's None, for an id and for a text column
NoId == 0
None == "None"

(* ----------------------------- bounds --------------------------------- *)
\* requests started in one behaviour
MaxOps == 2

\* concurrent request tasks
Procs == {1, 2}

\* the ids a request may address: agents 1 and 2 are stored at start, session 1
\* under agent 1 and session 2 under agent 2; session 3 is the first one created
AgentIds == {1, 2}
Paths == {<<1, 1>>, <<2, 1>>, <<2, 2>>, <<1, 3>>}
VoicePaths == {<<1, 1>>, <<2, 1>>, <<1, 3>>}

\* request payloads and gateway results
UserTexts == {"hi"}
Transcripts == {"heard"}
Completions == {"reply"}
Titles == {"Test Session"}
\* the fields an update sets: name, prompt or both; "n1" is the name every
\* agent is stored with at the start
Updates == {<<"n1", None>>, <<"n2", None>>, <<None, "p2">>, <<"n2", "p2">>}

(* ------------------------- program constants -------------------------- *)
HTTP_201_CREATED == 201
HTTP_204_NO_CONTENT == 204
HTTP_404_NOT_FOUND == 404
\* FastAPI's default status of a GET/PUT route, and of an unhandled exception
HTTP_200_OK == 200
HTTP_500_ERROR == 500


VARIABLES
    agents,     \* table agents:   id -> [name, prompt]
    sessions,   \* table sessions: id -> [agent_id, title]
    messages,   \* table messages: the rows in insertion (rowid) order
    clock,      \* the wall clock as last read by a created_at default
    pc,         \* per task: the await the request is at
    req,        \* per task: the request (route, path ids, payload)
    loc,        \* per task: the handler's local variables
    last,       \* the request the latest step answered, with its response
    nreq,       \* requests started so far
    created,    \* history: the owner of every session and every message row
                \* ever inserted, with the route that inserted it
    removed,    \* history: ids of the message rows a delete has removed
    spoken      \* history: ids of the assistant rows whose speech was synthesized

vars == <<agents, sessions, messages, clock, pc, req, loc, last, nreq,
          created, removed, spoken>>
history == <<created, removed, spoken>>
store == <<agents, sessions, messages>>

(* ------------------------------ helpers ------------------------------- *)
Range(s) == {s[i] : i \in 1..Len(s)}

RECURSIVE SeqFilter(_, _)
\* the rows of seq s whose id is not in the set ids, in order
SeqFilter(s, ids) ==
    IF s = <<>> THEN <<>>
    ELSE IF Head(s).id \in ids THEN SeqFilter(Tail(s), ids)
    ELSE <<Head(s)>> \o SeqFilter(Tail(s), ids)

Remove(f, ids) == [k \in (DOMAIN f) \ ids |-> f[k]]

\* uuid4: an id no row has had before
NewSessionId == 1 + Cardinality(DOMAIN created.sessions)
NewMessageId == 1 + Len(created.messages)

(* ------------------------------ models.py ----------------------------- *)
Agent(name, prompt) == [name |-> name, prompt |-> prompt]

ChatSession(agent_id, title) == [agent_id |-> agent_id, title |-> title]

\* a title the client gave, and f"Chat {n} ({time_str})" up to its time
GivenTitle(text) == [text |-> text, n |-> 0]
ChatTitle(n) == [text |-> "Chat", n |-> n]

Message(id, session_id, role, content, t) ==
    [id |-> id, session_id |-> session_id, role |-> role, content |-> content,
     audio_url |-> None, created_at |-> t]

\* _utcnow at flush: the wall clock has a finite resolution, so a row may
\* carry the created_at of the row inserted before it.  When no stored row
\* carries the last reading, a later reading compares to every stored row as
\* the last one does, and it stands for both.
UtcNow ==
    IF \E i \in 1..Len(messages) : messages[i].created_at = clock
    THEN {clock, clock + 1} ELSE {clock}

(* ------------------------------ queries ------------------------------- *)
\* select(Agent).where(Agent.id == agent_id) ... scalar_one_or_none()
AgentRow(agent_id) == IF agent_id \in DOMAIN agents THEN <<agents[agent_id]>> ELSE <<>>

\* the lookup without its agent_id condition
SessionRow_by_id(session_id, agent_id) ==
    IF session_id \in DOMAIN sessions THEN <<session_id>> ELSE <<>>

\* select(ChatSession).where(id == session_id, agent_id == agent_id)
SessionRow(session_id, agent_id) ==
    IF session_id \in DOMAIN sessions /\ sessions[session_id].agent_id = agent_id
    THEN <<session_id>> ELSE <<>>

\* the sessions loaded without the agent_id condition
SessionsOf_any(agent_id) == DOMAIN sessions

SessionsOf(agent_id) == {s \in DOMAIN sessions : sessions[s].agent_id = agent_id}

MessagesOf(session_ids) == {m \in Range(messages) : m.session_id \in session_ids}

RECURSIVE OrderByCreatedAt(_)
\* .order_by(Message.created_at.asc()): every order of the rows that is
\* ascending in created_at; the order of rows with equal keys is unspecified
OrderByCreatedAt(S) ==
    IF S = {} THEN {<<>>}
    ELSE LET first == {m \in S : \A o \in S : m.created_at <= o.created_at}
         IN  UNION {{<<m>> \o rest : rest \in OrderByCreatedAt(S \ {m})} : m \in first}

\* select(Message).where(session_id == ...).order_by(created_at.asc())
SelectMessages(session_id) == OrderByCreatedAt(MessagesOf({session_id}))

(* --------------------------- request tasks ---------------------------- *)
Payload(content, name, prompt, title) ==
    [content |-> content, name |-> name, prompt |-> prompt, title |-> title]

NoPayload == Payload(None, None, None, None)

Request(op, agent_id, session_id, payload) ==
    [op |-> op, agent_id |-> agent_id, session_id |-> session_id, payload |-> payload]

NoRequest == Request("none", NoId, NoId, NoPayload)

\* the locals of a handler before its first statement
NoLocals ==
    [agent |-> <<>>, session_ids |-> {}, message_ids |-> {}, n |-> 0,
     user_message |-> <<>>, assistant_message |-> <<>>,
     transcription_text |-> None, messages |-> <<>>, full_messages |-> <<>>,
     assistant_text |-> None, audio_url |-> None, steps |-> <<>>,
     calls |-> <<>>]

\* an answered request: the status and body sent, and the locals it ended with
Response(request, status, body, locals) ==
    [req |-> request, status |-> status, body |-> body, loc |-> locals]

NoResponse == Response(NoRequest, 0, <<>>, NoLocals)

\* the first await of each route
Entry(op) ==
    CASE op = "get_agent" -> "get_agent"
      [] op = "update_agent" -> "update_agent_select"
      [] op = "delete_agent" -> "delete_agent_select"
      [] op = "delete_session" -> "delete_session_select"
      [] OTHER -> "agent"

\* the inputs a route reads
Requests ==
         {Request("get_agent", a, NoId, NoPayload) : a \in AgentIds}
    \cup {Request("update_agent", a, NoId, Payload(None, u[1], u[2], None)) :
              a \in AgentIds, u \in Updates}
    \cup {Request("delete_agent", a, NoId, NoPayload) : a \in AgentIds}
    \cup {Request("create_session", a, NoId, Payload(None, None, None, t)) :
              a \in AgentIds, t \in Titles \cup {None}}
    \cup {Request(op, path[1], path[2], NoPayload) :
              op \in {"get_session", "delete_session", "list_messages"}, path \in Paths}
    \cup {Request("voice_interaction", path[1], path[2], NoPayload) : path \in VoicePaths}
    \cup {Request("send_message", path[1], path[2], Payload(c, None, None, None)) :
              path \in Paths, c \in UserTexts}

\* the task goes on to its next await with these locals
Continue(p, label, locals) ==
    /\ pc' = [pc EXCEPT ![p] = label]
    /\ loc' = [loc EXCEPT ![p] = locals]
    /\ last' = NoResponse
    /\ UNCHANGED req

\* the handler returns, or raises: the request is answered and its task ends
Finish(p, locals, status, body) ==
    /\ pc' = [pc EXCEPT ![p] = "done"]
    /\ req' = [req EXCEPT ![p] = NoRequest]
    /\ loc' = [loc EXCEPT ![p] = NoLocals]
    /\ last' = Response(req[p], status, body, locals)

\* the locals with one more completed step
Step(locals, name) == [locals EXCEPT !.steps = Append(@, name)]

\* the locals with one more call of a gateway made
Call(locals, name) == [locals EXCEPT !.calls = Append(@, name)]

Init ==
    /\ agents = [a \in {1, 2} |-> Agent("n1", "p1")]
    /\ sessions = [s \in {1, 2} |-> ChatSession(s, GivenTitle("Test Session"))]
    /\ messages = <<>>
    /\ clock = 0
    /\ pc = [p \in Procs |-> "done"]
    /\ req = [p \in Procs |-> NoRequest]
    /\ loc = [p \in Procs |-> NoLocals]
    /\ last = NoResponse
    /\ nreq = 0
    /\ created = [sessions |-> [s \in {1, 2} |-> s], messages |-> <<>>]
    /\ removed = {}
    /\ spoken = {}

\* a client sends a request: the dispatcher starts its handler
Start(p) ==
    /\ pc[p] = "done"
    /\ nreq < MaxOps
    /\ \E r \in Requests :
          /\ req' = [req EXCEPT ![p] = r]
          /\ pc' = [pc EXCEPT ![p] = Entry(r.op)]
    /\ nreq' = nreq + 1
    /\ last' = NoResponse
    /\ UNCHANGED <<store, clock, loc, history>>

(* --------------------------- routers/agents.py ------------------------ *)
get_agent(p) ==
    /\ pc[p] = "get_agent"
    /\ LET agent == AgentRow(req[p].agent_id)
       IN  IF agent = <<>> THEN Finish(p, loc[p], HTTP_404_NOT_FOUND, <<>>)
           ELSE Finish(p, loc[p], HTTP_200_OK, agent)
    /\ UNCHANGED <<store, clock, nreq, history>>

update_agent_select(p) ==
    /\ pc[p] = "update_agent_select"
    /\ LET agent == AgentRow(req[p].agent_id)
       IN  IF agent = <<>> THEN Finish(p, loc[p], HTTP_404_NOT_FOUND, <<>>)
           ELSE Continue(p, "update_agent_commit", [loc[p] EXCEPT !.agent = agent])
    /\ UNCHANGED <<store, clock, nreq, history>>

\* payload.model_dump(exclude_unset=True) applied to the loaded object
UpdateData(agent, payload) ==
    Agent(IF payload.name = None THEN agent.name ELSE payload.name,
          IF payload.prompt = None THEN agent.prompt ELSE payload.prompt)

\* the row after the flush: UPDATE ... SET the attributes whose value differs
\* from the loaded one
Flushed(row, loaded, new) ==
    Agent(IF new.name = loaded.name THEN row.name ELSE new.name,
          IF new.prompt = loaded.prompt THEN row.prompt ELSE new.prompt)

\* setattr per field; commit; refresh: an UPDATE that matches no row raises
\* StaleDataError, and so does the refresh of a row that is gone
update_agent_commit(p) ==
    /\ pc[p] = "update_agent_commit"
    /\ LET a == req[p].agent_id
           loaded == loc[p].agent[1]
           new == UpdateData(loaded, req[p].payload)
       IN  IF a \notin DOMAIN agents
           THEN Finish(p, loc[p], HTTP_500_ERROR, <<>>) /\ UNCHANGED agents
           ELSE /\ agents' = [agents EXCEPT ![a] = Flushed(@, loaded, new)]
                /\ Finish(p, loc[p], HTTP_200_OK, <<Flushed(agents[a], loaded, new)>>)
    /\ UNCHANGED <<sessions, messages, clock, nreq, history>>

\* the select loads the agent with its sessions and their messages
\* (lazy="selectin" on both relationships)
delete_agent_select(p) ==
    /\ pc[p] = "delete_agent_select"
    /\ LET agent == AgentRow(req[p].agent_id)
           owned == SessionsOf(req[p].agent_id)
       IN  IF agent = <<>> THEN Finish(p, loc[p], HTTP_404_NOT_FOUND, <<>>)
           ELSE Continue(p, "delete_agent_commit",
                         [loc[p] EXCEPT !.agent = agent, !.session_ids = owned,
                              !.message_ids = {m.id : m \in MessagesOf(owned)}])
    /\ UNCHANGED <<store, clock, nreq, history>>

\* the flush of a delete: the cascade deletes the loaded children
Cascade(p) ==
    /\ messages' = SeqFilter(messages, loc[p].message_ids)
    /\ sessions' = Remove(sessions, loc[p].session_ids)
    /\ removed' = removed \cup {m.id : m \in {x \in Range(messages) : x.id \in loc[p].message_ids}}

delete_agent_commit(p) ==
    /\ pc[p] = "delete_agent_commit"
    /\ Cascade(p)
    /\ agents' = Remove(agents, {req[p].agent_id})
    /\ Finish(p, loc[p], HTTP_204_NO_CONTENT, <<>>)
    /\ UNCHANGED <<clock, nreq, created, spoken>>

(* ------------- _get_agent_or_404 (sessions.py, messages.py) ---------- *)
\* where a route goes once its agent is found
AfterAgent(r) ==
    CASE r.op = "create_session" ->
             IF r.payload.title = None THEN "count_sessions" ELSE "insert_session"
      [] r.op = "get_session" -> "get_session"
      [] OTHER -> "session"

get_agent_or_404(p) ==
    /\ pc[p] = "agent"
    /\ LET agent == AgentRow(req[p].agent_id)
       IN  IF agent = <<>> THEN Finish(p, loc[p], HTTP_404_NOT_FOUND, <<>>)
           ELSE Continue(p, AfterAgent(req[p]), [loc[p] EXCEPT !.agent = agent])
    /\ UNCHANGED <<store, clock, nreq, history>>

(* -------------------------- routers/sessions.py ----------------------- *)
\* select(func.count()) of the agent's sessions, plus one
count_sessions(p) ==
    /\ pc[p] = "count_sessions"
    /\ Continue(p, "insert_session",
                [loc[p] EXCEPT !.n = Cardinality(SessionsOf(req[p].agent_id)) + 1])
    /\ UNCHANGED <<store, clock, nreq, history>>

\* the title numbered by a count made in the transaction of the insert
SessionTitle_counted(p) ==
    IF req[p].payload.title = None
    THEN ChatTitle(Cardinality(SessionsOf(req[p].agent_id)) + 1)
    ELSE GivenTitle(req[p].payload.title)

\* the title create_session stores
SessionTitle(p) ==
    IF req[p].payload.title = None THEN ChatTitle(loc[p].n)
    ELSE GivenTitle(req[p].payload.title)

\* db.add(session); commit; refresh: the insert checks no foreign key
insert_session(p) ==
    /\ pc[p] = "insert_session"
    /\ LET id == NewSessionId
       IN  /\ sessions' = [s \in DOMAIN sessions \cup {id} |->
                              IF s = id THEN ChatSession(req[p].agent_id, SessionTitle(p))
                              ELSE sessions[s]]
           /\ created' = [created EXCEPT !.sessions =
                              [s \in DOMAIN @ \cup {id} |->
                                  IF s = id THEN req[p].agent_id ELSE @[s]]]
           /\ Finish(p, loc[p], HTTP_201_CREATED,
                     <<[id |-> id] @@ ChatSession(req[p].agent_id, SessionTitle(p))>>)
    /\ UNCHANGED <<agents, messages, clock, nreq, removed, spoken>>

\* a session as the response shows it
SessionResponse(id) == <<[id |-> id] @@ sessions[id]>>

get_session(p) ==
    /\ pc[p] = "get_session"
    /\ LET session == SessionRow(req[p].session_id, req[p].agent_id)
       IN  IF session = <<>> THEN Finish(p, loc[p], HTTP_404_NOT_FOUND, <<>>)
           ELSE Finish(p, loc[p], HTTP_200_OK, SessionResponse(session[1]))
    /\ UNCHANGED <<store, clock, nreq, history>>

\* the select loads the session with its messages (lazy="selectin")
delete_session_select(p) ==
    /\ pc[p] = "delete_session_select"
    /\ LET session == SessionRow(req[p].session_id, req[p].agent_id)
       IN  IF session = <<>> THEN Finish(p, loc[p], HTTP_404_NOT_FOUND, <<>>)
           ELSE Continue(p, "delete_session_commit",
                         [loc[p] EXCEPT !.session_ids = {session[1]},
                              !.message_ids = {m.id : m \in MessagesOf({session[1]})}])
    /\ UNCHANGED <<store, clock, nreq, history>>

delete_session_commit(p) ==
    /\ pc[p] = "delete_session_commit"
    /\ Cascade(p)
    /\ Finish(p, loc[p], HTTP_204_NO_CONTENT, <<>>)
    /\ UNCHANGED <<agents, clock, nreq, created, spoken>>

(* -------------------------- routers/messages.py ----------------------- *)
\* the text route going on without storing its user message
AfterSession_unsaved(op) ==
    CASE op = "list_messages" -> "list_messages"
      [] op = "send_message" -> "history"
      [] OTHER -> "transcribe"

\* the voice route storing its user message before the transcription
AfterSession_untranscribed(op) ==
    CASE op = "list_messages" -> "list_messages"
      [] OTHER -> "save_user"

\* where a route goes once its session is found
AfterSession(op) ==
    CASE op = "list_messages" -> "list_messages"
      [] op = "send_message" -> "save_user"
      [] OTHER -> "transcribe"

\* the route going on without its session lookup
get_session_or_404_unchecked(p) ==
    /\ pc[p] = "session"
    /\ Continue(p, AfterSession(req[p].op), Step(loc[p], "validate"))
    /\ UNCHANGED <<store, clock, nreq, history>>

get_session_or_404(p) ==
    /\ pc[p] = "session"
    /\ LET session == SessionRow(req[p].session_id, req[p].agent_id)
       IN  IF session = <<>> THEN Finish(p, loc[p], HTTP_404_NOT_FOUND, <<>>)
           ELSE Continue(p, AfterSession(req[p].op), Step(loc[p], "validate"))
    /\ UNCHANGED <<store, clock, nreq, history>>

list_messages(p) ==
    /\ pc[p] = "list_messages"
    /\ \E rows \in SelectMessages(req[p].session_id) : Finish(p, loc[p], HTTP_200_OK, rows)
    /\ UNCHANGED <<store, clock, nreq, history>>

\* openai_stt.transcribe_audio returns the text, or raises
transcribe_audio(p) ==
    /\ pc[p] = "transcribe"
    /\ \/ \E text \in Transcripts :
             Continue(p, "save_user",
                      [Step(Call(loc[p], "transcribe"), "transcribe") EXCEPT
                          !.transcription_text = text])
       \/ Finish(p, Call(loc[p], "transcribe"), HTTP_500_ERROR, <<>>)
    /\ UNCHANGED <<store, clock, nreq, history>>

\* db.add(row); commit; refresh: the insert checks no foreign key, and
\* created_at is _utcnow() at the flush
Persist(p, row) ==
    /\ messages' = Append(messages, row)
    /\ clock' = row.created_at
    /\ created' = [created EXCEPT !.messages =
                       Append(@, [id |-> row.id, session_id |-> row.session_id,
                                  role |-> row.role, content |-> row.content,
                                  op |-> req[p].op])]

\* every route storing the transcription
UserContent_transcription(p) == loc[p].transcription_text

\* the text a request stores as its user message
UserContent(p) ==
    IF req[p].op = "send_message" THEN req[p].payload.content
    ELSE loc[p].transcription_text

save_user(p) ==
    /\ pc[p] = "save_user"
    /\ \E t \in UtcNow :
          LET row == Message(NewMessageId, req[p].session_id, "user", UserContent(p), t)
          IN  /\ Persist(p, row)
              /\ Continue(p, "history",
                          [Step(loc[p], "persist_user") EXCEPT !.user_message = <<row>>])
    /\ UNCHANGED <<agents, sessions, nreq, removed, spoken>>

\* the stored row of an object
Stored(object) == {m \in Range(messages) : m.id = object[1].id}

RECURSIVE Conversation(_)
\* [{"role": msg.role, "content": msg.content} for msg in messages]
Conversation(rows) ==
    IF rows = <<>> THEN <<>>
    ELSE <<[role |-> Head(rows).role, content |-> Head(rows).content]>>
             \o Conversation(Tail(rows))

\* [{"role": "system", "content": agent.prompt}] + conversation
FullMessages(agent, rows) ==
    <<[role |-> "system", content |-> agent.prompt]>> \o Conversation(rows)

\* _build_conversation_history, and the prompt built from it
build_conversation_history(p) ==
    /\ pc[p] = "history"
    /\ \E rows \in SelectMessages(req[p].session_id) :
          Continue(p, "chat",
                   [Step(loc[p], "load_history") EXCEPT
                       !.messages = rows,
                       !.full_messages = FullMessages(loc[p].agent[1], rows)])
    /\ UNCHANGED <<store, clock, nreq, history>>

\* the handler calling the completion a second time when the first call raises
generate_chat_response_retry(p) ==
    /\ pc[p] = "chat"
    /\ \/ \E text \in Completions :
             Continue(p, "save_assistant",
                      [Step(Call(loc[p], "chat"), "chat_complete") EXCEPT
                          !.assistant_text = text, !.agent = <<>>,
                          !.messages = <<>>, !.full_messages = <<>>])
       \/ IF loc[p].calls \in {<<>>, <<"transcribe">>}
          THEN Continue(p, "chat", Call(loc[p], "chat"))
          ELSE Finish(p, Call(loc[p], "chat"), HTTP_500_ERROR, <<>>)
    /\ UNCHANGED <<store, clock, nreq, history>>

\* the handler undoing its user message when the call raises
generate_chat_response_undo(p) ==
    /\ pc[p] = "chat"
    /\ \/ /\ \E text \in Completions :
                Continue(p, "save_assistant",
                         [Step(Call(loc[p], "chat"), "chat_complete") EXCEPT
                             !.assistant_text = text, !.agent = <<>>,
                             !.messages = <<>>, !.full_messages = <<>>])
          /\ UNCHANGED messages
       \/ /\ Finish(p, Call(loc[p], "chat"), HTTP_500_ERROR, <<>>)
          /\ messages' = SeqFilter(messages, {loc[p].user_message[1].id})
    /\ UNCHANGED <<agents, sessions, clock, nreq, history>>

\* openai_chat.generate_chat_response returns the text, or raises
generate_chat_response(p) ==
    /\ pc[p] = "chat"
    /\ \/ \E text \in Completions :
             Continue(p, "save_assistant",
                      [Step(Call(loc[p], "chat"), "chat_complete") EXCEPT
                          !.assistant_text = text, !.agent = <<>>,
                          !.messages = <<>>, !.full_messages = <<>>])
       \/ Finish(p, Call(loc[p], "chat"), HTTP_500_ERROR, <<>>)
    /\ UNCHANGED <<store, clock, nreq, history>>

\* the locals once the assistant message is stored
Saved(locals, row) ==
    [Step(locals, "persist_assistant") EXCEPT !.assistant_message = <<row>>]

save_assistant(p) ==
    /\ pc[p] = "save_assistant"
    /\ \E t \in UtcNow :
          LET row == Message(NewMessageId, req[p].session_id, "assistant",
                             loc[p].assistant_text, t)
          IN  /\ Persist(p, row)
              /\ IF req[p].op = "send_message"
                 THEN Finish(p, Saved(loc[p], row), HTTP_201_CREATED,
                             loc[p].user_message \o <<row>>)
                 ELSE Continue(p, "synthesize", Saved(loc[p], row))
    /\ UNCHANGED <<agents, sessions, nreq, removed, spoken>>

\* the path of the file in place of its URL
AudioUrl_path(name) == "audio/" \o ToString(name) \o ".mp3"

\* f"/api/audio/{uuid.uuid4().hex}.mp3"
AudioUrl(name) == "/api/audio/" \o ToString(name) \o ".mp3"

\* the handler deleting its assistant message when the synthesis raises
generate_speech_undo(p) ==
    /\ pc[p] = "synthesize"
    /\ \/ /\ Continue(p, "save_audio",
                      [Step(Call(loc[p], "synthesize"), "synthesize") EXCEPT
                          !.audio_url = AudioUrl(loc[p].assistant_message[1].id)])
          /\ spoken' = spoken \cup {loc[p].assistant_message[1].id}
          /\ UNCHANGED messages
       \/ /\ Finish(p, Call(loc[p], "synthesize"), HTTP_500_ERROR, <<>>)
          /\ messages' = SeqFilter(messages, {loc[p].assistant_message[1].id})
          /\ UNCHANGED spoken
    /\ UNCHANGED <<agents, sessions, clock, nreq, created, removed>>

\* openai_tts.generate_speech writes the file, or raises
generate_speech(p) ==
    /\ pc[p] = "synthesize"
    /\ \/ /\ Continue(p, "save_audio",
                      [Step(Call(loc[p], "synthesize"), "synthesize") EXCEPT
                          !.audio_url = AudioUrl(loc[p].assistant_message[1].id)])
          /\ spoken' = spoken \cup {loc[p].assistant_message[1].id}
       \/ Finish(p, Call(loc[p], "synthesize"), HTTP_500_ERROR, <<>>) /\ UNCHANGED spoken
    /\ UNCHANGED <<store, clock, nreq, created, removed>>

\* the UPDATE writing the content column
SetAudioUrl_content(rows, id, url) ==
    [i \in 1..Len(rows) |->
        IF rows[i].id = id THEN [rows[i] EXCEPT !.content = url] ELSE rows[i]]

\* the UPDATE without its WHERE clause
SetAudioUrl_every(rows, id, url) ==
    [i \in 1..Len(rows) |-> [rows[i] EXCEPT !.audio_url = url]]

RECURSIVE SetAudioUrl(_, _, _)
\* UPDATE messages SET audio_url = url WHERE id = id
SetAudioUrl(rows, id, url) ==
    IF rows = <<>> THEN <<>>
    ELSE <<IF Head(rows).id = id THEN [Head(rows) EXCEPT !.audio_url = url]
           ELSE Head(rows)>> \o SetAudioUrl(Tail(rows), id, url)

\* assistant_message.audio_url = audio_url; commit: the UPDATE of a row that
\* is gone raises StaleDataError
save_audio(p) ==
    /\ pc[p] = "save_audio"
    /\ IF Stored(loc[p].assistant_message) = {}
       THEN Finish(p, loc[p], HTTP_500_ERROR, <<>>) /\ UNCHANGED messages
       ELSE \E row \in Stored(loc[p].assistant_message) :
              /\ messages' = SetAudioUrl(messages, row.id, loc[p].audio_url)
              /\ Finish(p, Step(loc[p], "persist_audio"), HTTP_201_CREATED,
                        loc[p].user_message \o <<[row EXCEPT !.audio_url = loc[p].audio_url]>>)
    /\ UNCHANGED <<agents, sessions, clock, nreq, history>>

(* ---------------------------- specification --------------------------- *)
Next ==
    \E p \in Procs :
        \/ Start(p)
        \/ get_agent(p)
        \/ update_agent_select(p)
        \/ update_agent_commit(p)
        \/ delete_agent_select(p)
        \/ delete_agent_commit(p)
        \/ get_agent_or_404(p)
        \/ count_sessions(p)
        \/ insert_session(p)
        \/ get_session(p)
        \/ delete_session_select(p)
        \/ delete_session_commit(p)
        \/ get_session_or_404(p)
        \/ list_messages(p)
        \/ transcribe_audio(p)
        \/ save_user(p)
        \/ build_conversation_history(p)
        \/ generate_chat_response(p)
        \/ save_assistant(p)
        \/ generate_speech(p)
        \/ save_audio(p)

Spec == Init /\ [][Next]_vars

(* ----------------------------- properties ----------------------------- *)
SendOps == {"send_message", "voice_interaction"}
SessionScoped == {"get_session", "delete_session", "list_messages"} \cup SendOps

\* task p takes the step
Steps(p) == pc'[p] # pc[p]

\* the rows are in the order in which they were inserted
InsertionOrder(rows) ==
    \A i, j \in 1..Len(rows) : i < j => rows[i].id < rows[j].id

IsPrefix(s, t) == Len(s) <= Len(t) /\ s = SubSeq(t, 1, Len(s))

TextSteps == <<"validate", "persist_user", "load_history", "chat_complete",
               "persist_assistant">>

\* the steps of a send_message request: each of the two saving steps appends
\* its row and changes no other, and no other step changes the table
C1_Step ==
    \A p \in Procs :
        (req[p].op = "send_message" /\ Steps(p)) =>
            CASE pc[p] = "save_user" ->
                     \E t \in {clock, clock + 1} :
                         messages' = Append(messages,
                             Message(Len(created.messages) + 1, req[p].session_id,
                                     "user", req[p].payload.content, t))
              [] pc[p] = "save_assistant" ->
                     LET user == loc[p].user_message[1]
                         row == messages'[Len(messages')]
                     IN  /\ messages' = Append(messages, row)
                         /\ row.role = "assistant"
                         /\ row.content = loc[p].assistant_text
                         /\ row.content \in Completions
                         /\ row.session_id = req[p].session_id
                         /\ row.audio_url = None
                         /\ user.role = "user"
                         /\ user.content = req[p].payload.content
                         /\ user.session_id = req[p].session_id
                         /\ user.id < row.id
                         /\ user.created_at <= row.created_at
                         /\ last'.status = HTTP_201_CREATED
                         /\ last'.body = <<user, row>>
                         /\ last'.loc.steps = TextSteps
              [] OTHER -> messages' = messages

\* C1: a send_message request whose chat call succeeded has added exactly two
\* rows: at its user step a "user" row with the request text, at its
\* assistant step an "assistant" row with the completion text, both of the
\* request's session, the user row first; no other step of the request
\* changes the table, and both steps only append their row.
C1_Theorem == [][C1_Step]_vars

C1_Witness ==
    /\ last.req.op = "send_message"
    /\ last.status = HTTP_201_CREATED
    /\ Len(last.body) = 2
    /\ \A i \in 1..2 : last.body[i] \in Range(messages)

\* what C2 says of a send_message request at and after its chat call; kept
\* says what is left of the request's user message afterwards
C2_Holds(kept(_)) ==
    /\ \A p \in Procs :
          (req[p].op = "send_message" /\ pc[p] = "chat") =>
              /\ loc[p].user_message # <<>>
              /\ loc[p].user_message[1].id \in 1..Len(created.messages)
              /\ loc[p].assistant_message = <<>>
    /\ (last.req.op = "send_message" /\ last.status = HTTP_500_ERROR) =>
              /\ last.loc.steps = <<"validate", "persist_user", "load_history">>
              /\ last.loc.user_message # <<>>
              /\ kept(last.loc.user_message)
              /\ last.loc.assistant_message = <<>>

C2_InStore(object) == Stored(object) # {}

C2_InStoreOrDeleted(object) == Stored(object) # {} \/ object[1].id \in removed

\* the step at which the chat call of a send_message request fails answers
\* with an error and writes nothing
C2_Step ==
    \A p \in Procs :
        (req[p].op = "send_message" /\ pc[p] = "chat" /\ pc'[p] = "done") =>
            /\ last'.status = HTTP_500_ERROR
            /\ UNCHANGED <<store, created>>

\* C2 (as stated): the user message is committed before the chat call; when
\* the call fails the request ends in an error, its user message is in the
\* store afterwards and it has persisted no assistant message.
C2_Original == C2_Holds(C2_InStore)

\* C2 (amended): the user message is committed before the chat call; when the
\* call fails the request ends in an error and the failure removes nothing:
\* the user message is in the store afterwards unless a concurrent
\* delete_session or delete_agent has removed it, and the request has
\* persisted no assistant message.
C2_Theorem == []C2_Holds(C2_InStoreOrDeleted) /\ [][C2_Step]_vars

C2_Witness ==
    /\ last.req.op = "send_message"
    /\ last.status = HTTP_500_ERROR
    /\ C2_InStore(last.loc.user_message)

\* the request addresses a session under an agent that never owned it
Foreign(r) ==
    /\ r.op \in SessionScoped
    /\ r.session_id \in DOMAIN created.sessions
    /\ created.sessions[r.session_id] # r.agent_id

C3_Rejected ==
    /\ \A p \in Procs :
          Foreign(req[p]) =>
              /\ pc[p] \in {"agent", "session", "get_session", "delete_session_select"}
              /\ loc[p].steps = <<>>
              /\ loc[p].session_ids = {} /\ loc[p].message_ids = {}
              /\ loc[p].messages = <<>>
    /\ Foreign(last.req) =>
              /\ last.status = HTTP_404_NOT_FOUND
              /\ last.body = <<>>
              /\ last.loc.steps = <<>>

C3_Step == \A p \in Procs : (Foreign(req[p]) /\ Steps(p)) => UNCHANGED store

\* C3: a session-scoped request that addresses a session under another agent
\* than its owner never gets past the lookups, is answered 404 with no data,
\* and none of its steps changes the store.
C3_Theorem == []C3_Rejected /\ [][C3_Step]_vars

C3_Witness ==
    /\ Foreign(last.req)
    /\ last.req.op = "delete_session"
    /\ last.req.session_id \in DOMAIN sessions
    /\ last.status = HTTP_404_NOT_FOUND

\* C4 (as stated): once delete_agent(a) has answered 204 the store holds no
\* session of a and no message of a session that belonged to a, and a lookup
\* of a finds nothing; once delete_session(a, s) has answered 204 the store
\* holds no message of s and a lookup of s finds nothing.
C4_Counterexample ==
    /\ (last.req.op = "delete_agent" /\ last.status = HTTP_204_NO_CONTENT) =>
          /\ AgentRow(last.req.agent_id) = <<>>
          /\ SessionsOf(last.req.agent_id) = {}
          /\ \A m \in Range(messages) :
                 created.sessions[m.session_id] # last.req.agent_id
    /\ (last.req.op = "delete_session" /\ last.status = HTTP_204_NO_CONTENT) =>
          /\ SessionRow(last.req.session_id, last.req.agent_id) = <<>>
          /\ MessagesOf({last.req.session_id}) = {}

C5_Step ==
    \A p \in Procs :
        (pc[p] \in {"save_user", "save_assistant"} /\ Steps(p)) =>
            req[p].session_id \in DOMAIN sessions

\* C5 (as stated): at every step that persists a user or an assistant
\* message, the session the message references is in the store.
C5_Counterexample == [][C5_Step]_vars

\* C6 (as stated): the sequence a send hands to the chat call is one system
\* entry with the agent's prompt, then one {role, content} entry per message
\* of the session in the order in which they were persisted; it holds the
\* request's own user message and no message of another session.
C6_Counterexample ==
    \A p \in Procs :
        pc[p] = "chat" =>
            LET rows == loc[p].messages
                full == loc[p].full_messages
            IN  /\ Len(full) = Len(rows) + 1
                /\ full[1] = [role |-> "system", content |-> loc[p].agent[1].prompt]
                /\ \A i \in 1..Len(rows) :
                       /\ full[i + 1] = [role |-> rows[i].role, content |-> rows[i].content]
                       /\ rows[i].session_id = req[p].session_id
                /\ InsertionOrder(rows)
                /\ loc[p].user_message[1] \in Range(rows)

\* the rows ever inserted for a session, in insertion order
RECURSIVE LogOf(_, _)
LogOf(log, session_id) ==
    IF log = <<>> THEN <<>>
    ELSE IF Head(log).session_id = session_id
         THEN <<Head(log)>> \o LogOf(Tail(log), session_id)
         ELSE LogOf(Tail(log), session_id)

\* every send on the session has completed, and no row of it was deleted
C7_Settled(session_id) ==
    LET log == LogOf(created.messages, session_id)
    IN  /\ \A p \in Procs : ~(req[p].op \in SendOps /\ req[p].session_id = session_id)
        /\ \A i \in 1..Len(log) :
               /\ log[i].id \notin removed
               /\ (log[i].op = "voice_interaction" /\ log[i].role = "assistant")
                      => log[i].id \in spoken
        /\ Cardinality({i \in 1..Len(log) : log[i].role = "user"})
               = Cardinality({i \in 1..Len(log) : log[i].role = "assistant"})

\* C7 (as stated): after N completed sends on a session with no deletion,
\* list_messages answers with exactly the 2N rows, in the order in which they
\* were persisted.
C7_Counterexample ==
    (/\ last.req.op = "list_messages"
     /\ last.status = HTTP_200_OK
     /\ C7_Settled(last.req.session_id)) =>
        LET log == LogOf(created.messages, last.req.session_id)
        IN  /\ Len(last.body) = Len(log)
            /\ \A i \in 1..Len(log) :
                   /\ last.body[i].id = log[i].id
                   /\ last.body[i].role = log[i].role

\* C8 (as stated): rows of one session with equal created_at come back in
\* insertion order, from list_messages and in the history of a send alike.
C8_Counterexample ==
    /\ (last.req.op = "list_messages" /\ last.status = HTTP_200_OK) =>
           InsertionOrder(last.body)
    /\ \A p \in Procs : pc[p] = "chat" => InsertionOrder(loc[p].messages)

VoiceSteps == <<"validate", "transcribe", "persist_user", "load_history",
                "chat_complete", "persist_assistant", "synthesize", "persist_audio">>

\* the steps a voice request has completed when it is at an await
VoiceDone(label) ==
    CASE label = "transcribe" -> 1
      [] label = "save_user" -> 2
      [] label = "history" -> 3
      [] label = "chat" -> 4
      [] label = "save_assistant" -> 5
      [] label = "synthesize" -> 6
      [] label = "save_audio" -> 7
      [] OTHER -> 0

\* what the steps leave in the locals
VoiceEffects(locals) ==
    LET done(name) == \E i \in 1..Len(locals.steps) : locals.steps[i] = name
    IN  /\ done("transcribe") <=> locals.transcription_text # None
        /\ done("persist_user") <=> locals.user_message # <<>>
        /\ done("chat_complete") <=> locals.assistant_text # None
        /\ done("persist_assistant") <=> locals.assistant_message # <<>>
        /\ done("synthesize") <=> locals.audio_url # None
        /\ done("persist_user") =>
               locals.user_message[1].content = locals.transcription_text
        /\ done("persist_assistant") =>
               /\ locals.assistant_message[1].content = locals.assistant_text
               /\ locals.user_message[1].id < locals.assistant_message[1].id
        /\ done("synthesize") => locals.assistant_message[1].id \in spoken

\* C9: a voice request completes its steps in the order validate, transcribe,
\* persist user, load history, chat-complete, persist assistant, synthesize,
\* persist audio reference: at each await exactly the steps before it are
\* done, a request that fails has done a prefix, one that succeeds all.
C9_Theorem ==
    /\ \A p \in Procs :
          req[p].op = "voice_interaction" =>
              /\ loc[p].steps = SubSeq(VoiceSteps, 1, VoiceDone(pc[p]))
              /\ VoiceEffects(loc[p])
    /\ last.req.op = "voice_interaction" =>
              /\ IsPrefix(last.loc.steps, VoiceSteps)
              /\ VoiceEffects(last.loc)
              /\ last.status = HTTP_201_CREATED <=> last.loc.steps = VoiceSteps

C9_Witness ==
    /\ last.req.op = "voice_interaction"
    /\ last.status = HTTP_201_CREATED
    /\ last.loc.steps = VoiceSteps

\* C10: a stored row has an audio_url only if it is an assistant row that a
\* voice request inserted and whose speech has been synthesized.
C10_Theorem ==
    \A m \in Range(messages) :
        m.audio_url # None =>
            /\ m.role = "assistant"
            /\ created.messages[m.id].op = "voice_interaction"
            /\ created.messages[m.id].role = "assistant"
            /\ m.id \in spoken

C10_Witness ==
    /\ \E m \in Range(messages) : m.audio_url # None
    /\ \E m \in Range(messages) : m.role = "assistant" /\ m.audio_url = None

MessageOps == {"send_message", "voice_interaction", "list_messages"}

\* task p answers 404 with no data, having completed no step
NotFoundAnswer(p) ==
    /\ pc'[p] = "done"
    /\ last'.req = req[p]
    /\ last'.status = HTTP_404_NOT_FOUND
    /\ last'.body = <<>>
    /\ last'.loc = NoLocals \/ last'.loc = [NoLocals EXCEPT !.agent = loc[p].agent]

\* the lookups of a messages route: the agent first, then the session; a
\* lookup that finds nothing ends the request, and no lookup writes
C12_Step ==
    \A p \in Procs :
        /\ (pc[p] = "done" /\ Steps(p) /\ req'[p].op \in MessageOps) => pc'[p] = "agent"
        /\ (req[p].op \in MessageOps /\ Steps(p)) =>
              /\ (pc[p] = "agent" /\ req[p].agent_id \notin DOMAIN agents)
                     => NotFoundAnswer(p)
              /\ (pc[p] = "agent" /\ req[p].agent_id \in DOMAIN agents)
                     => pc'[p] = "session"
              /\ (pc[p] = "session" /\ req[p].session_id \notin DOMAIN sessions)
                     => NotFoundAnswer(p)
              /\ pc[p] \in {"agent", "session"} => UNCHANGED <<store, history>>
              /\ pc[p] \notin {"agent", "session"} => loc[p].steps # <<>>

\* C12: send_message, voice_interaction and list_messages for an absent agent,
\* or for a stored agent with an absent session, answer 404; the agent is
\* looked up before the session; the request ends there, having persisted no
\* message and made no gateway call, and the store is as it was.
C12_Theorem == [][C12_Step]_vars

C12_Witness ==
    /\ last.req.op = "voice_interaction"
    /\ last.status = HTTP_404_NOT_FOUND
    /\ last.req.agent_id \notin DOMAIN agents
    /\ last.req.session_id \notin DOMAIN sessions
    /\ last.loc.steps = <<>>

\* how often a gateway was called
Count(calls, name) == Cardinality({i \in 1..Len(calls) : calls[i] = name})

\* the calls a request has made, given its route and the steps it has done
C13_Calls(r, locals, status) ==
    LET calls == locals.calls
        done(name) == \E i \in 1..Len(locals.steps) : locals.steps[i] = name
    IN  /\ \A name \in {"transcribe", "chat", "synthesize"} : Count(calls, name) <= 1
        /\ r.op = "send_message" => IsPrefix(calls, <<"chat">>)
        /\ r.op = "voice_interaction" => IsPrefix(calls, <<"transcribe", "chat", "synthesize">>)
        /\ r.op \notin SendOps => calls = <<>>
        /\ done("transcribe") => Count(calls, "transcribe") = 1
        /\ done("chat_complete") => Count(calls, "chat") = 1
        /\ done("synthesize") => Count(calls, "synthesize") = 1
        /\ (status = HTTP_201_CREATED /\ r.op = "send_message") => calls = <<"chat">>
        /\ (status = HTTP_201_CREATED /\ r.op = "voice_interaction")
               => calls = <<"transcribe", "chat", "synthesize">>

\* C13: a request calls each gateway at most once and never again after a
\* failure: send_message calls the chat completion at most once and nothing
\* else, voice_interaction calls transcribe, chat completion and synthesize at
\* most once each and in that order, a request answered 201 has made each of
\* its calls exactly once, and every other route makes none.
C13_Theorem ==
    /\ \A p \in Procs : C13_Calls(req[p], loc[p], 0)
    /\ C13_Calls(last.req, last.loc, last.status)
    /\ (last.status = HTTP_500_ERROR /\ last.req.op \in SendOps /\ Len(last.loc.steps) < 7)
           => /\ last.loc.calls # <<>>
              /\ Len(last.loc.calls) = 1 + Count(last.loc.steps, "transcribe")
                                         + Count(last.loc.steps, "chat_complete")
                                         + Count(last.loc.steps, "synthesize")

C13_Witness ==
    /\ last.req.op = "voice_interaction"
    /\ last.status = HTTP_500_ERROR
    /\ last.loc.calls = <<"transcribe", "chat", "synthesize">>
    /\ last.loc.steps = SubSeq(VoiceSteps, 1, 6)

\* how many sessions were ever created under an agent
CreatedUnder(agent_id) ==
    Cardinality({s \in DOMAIN created.sessions : created.sessions[s] = agent_id})

\* C14 (as stated): after any creations and deletions, the k-th session
\* created under an agent, when created without a title, is stored with the
\* default title numbered k; a session created with a title stores that title.
C14_Counterexample ==
    (/\ last.req.op = "create_session"
     /\ last.status = HTTP_201_CREATED
     /\ last.req.agent_id \in DOMAIN agents) =>
        /\ Len(last.body) = 1
        /\ last.body[1].title =
               IF last.req.payload.title = None
               THEN ChatTitle(CreatedUnder(last.req.agent_id))
               ELSE GivenTitle(last.req.payload.title)

\* C15: the number in a default title is the one create_session counted at
\* its earlier await, whatever was committed since: nothing locks the count
\* and the insert together.  The insert then succeeds with a new id, so two
\* concurrent creations for one agent that counted the same rows are both
\* stored, as two sessions whose titles carry the same number.
C15_Theorem ==
    /\ \A p \in Procs :
          (pc[p] = "insert_session" /\ req[p].payload.title = None) => loc[p].n >= 1
    /\ (/\ last.req.op = "create_session"
        /\ last.req.payload.title = None
        /\ last.loc.agent # <<>>) =>
          /\ last.status = HTTP_201_CREATED
          /\ Len(last.body) = 1
          /\ last.body[1].title = ChatTitle(last.loc.n)
          /\ last.body[1].agent_id = last.req.agent_id
          /\ last.body[1].id = Cardinality(DOMAIN created.sessions)
          /\ last.body[1].id \in DOMAIN sessions
          /\ sessions[last.body[1].id] =
                 ChatSession(last.req.agent_id, ChatTitle(last.loc.n))

C15_Witness ==
    /\ last.req.op = "create_session"
    /\ last.status = HTTP_201_CREATED
    /\ DOMAIN created.sessions = DOMAIN sessions
    /\ \E s, t \in DOMAIN sessions :
          /\ s # t
          /\ sessions[s].agent_id = sessions[t].agent_id
          /\ sessions[s].title = sessions[t].title
          /\ sessions[s].title.text = "Chat"

\* C16 (as stated): create_session for an absent agent answers 404 and
\* stores nothing, and under every interleaving with delete_agent the agent
\* of every stored session is stored: when the session is inserted and in
\* every state after.
C16_Counterexample ==
    /\ \A s \in DOMAIN sessions : sessions[s].agent_id \in DOMAIN agents
    /\ (last.req.op = "create_session" /\ last.status = HTTP_201_CREATED) =>
           last.req.agent_id \in DOMAIN agents
    /\ (last.req.op = "create_session" /\ last.loc.agent = <<>>) =>
           /\ last.status = HTTP_404_NOT_FOUND
           /\ last.body = <<>>

\* the agent row with the fields present in the payload set to their values
Updated(row, payload) ==
    Agent(IF payload.name = None THEN row.name ELSE payload.name,
          IF payload.prompt = None THEN row.prompt ELSE payload.prompt)

C17_Step ==
    \A p \in Procs :
        (req[p].op = "update_agent" /\ Steps(p)) =>
            IF pc[p] = "update_agent_commit" /\ req[p].agent_id \in DOMAIN agents
            THEN /\ agents' = [agents EXCEPT
                                  ![req[p].agent_id] = Updated(@, req[p].payload)]
                 /\ UNCHANGED <<sessions, messages>>
            ELSE /\ UNCHANGED store
                 /\ (pc[p] = "update_agent_select" /\ req[p].agent_id \notin DOMAIN agents)
                        => /\ last'.status = HTTP_404_NOT_FOUND
                           /\ last'.body = <<>>

\* C17 (as stated): the commit of update_agent leaves the addressed agent
\* with the fields present in the request set to the requested values and its
\* other fields as they were, and leaves every other agent, every session and
\* every message as it was; update_agent for an absent agent answers 404 and
\* changes nothing.
C17_Counterexample == [][C17_Step]_vars

\* one step of any task, on the rows stored before and after it
C18_Step ==
    /\ \A s \in DOMAIN sessions \cap DOMAIN sessions' : sessions'[s] = sessions[s]
    /\ \A i \in 1..Len(messages), j \in 1..Len(messages') :
          messages[i].id = messages'[j].id =>
              /\ messages'[j].session_id = messages[i].session_id
              /\ messages'[j].role = messages[i].role
              /\ messages'[j].content = messages[i].content
              /\ messages'[j].created_at = messages[i].created_at
              /\ messages'[j].audio_url # messages[i].audio_url =>
                     /\ messages[i].audio_url = None
                     /\ messages'[j].audio_url # None
                     /\ \E p \in Procs : pc[p] = "save_audio" /\ Steps(p)
    /\ \A j \in 1..Len(messages') : messages'[j].role \in {"user", "assistant"}
    /\ \A s \in DOMAIN sessions' \ DOMAIN sessions : s \notin DOMAIN created.sessions
    /\ \A j \in 1..Len(messages') :
          (\A i \in 1..Len(messages) : messages[i].id # messages'[j].id) =>
              messages'[j].id > Len(created.messages)

\* C18: no step changes the agent_id or the title of a stored session, or
\* the session_id, the role or the content of a stored message; every role is
\* "user" or "assistant"; the audio_url of a message changes only from absent
\* to a value, at the last step of a voice request, so at most once; and no
\* id is given to a second row.
C18_Theorem == [][C18_Step]_vars

C18_Witness ==
    /\ \E m \in Range(messages) :
          /\ m.audio_url # None
          /\ m.content = created.messages[m.id].content
    /\ \E s \in DOMAIN sessions : s \notin {1, 2}
    /\ last.req.op = "create_session"

\* what C19 says of a voice request that a gateway call has failed; kept says
\* what is left of a row the request had committed
C19_Holds(kept(_)) ==
    (last.req.op = "voice_interaction" /\ last.status = HTTP_500_ERROR) =>
        LET locals == last.loc
        IN  CASE locals.calls = <<"transcribe">> ->
                     /\ locals.steps = SubSeq(VoiceSteps, 1, 1)
                     /\ locals.user_message = <<>>
                     /\ locals.assistant_message = <<>>
              [] locals.calls = <<"transcribe", "chat">> ->
                     /\ locals.steps = SubSeq(VoiceSteps, 1, 4)
                     /\ locals.user_message # <<>>
                     /\ kept(locals.user_message)
                     /\ \A m \in Stored(locals.user_message) :
                            /\ m.role = "user"
                            /\ m.content = locals.transcription_text
                     /\ locals.assistant_message = <<>>
              [] locals.calls = <<"transcribe", "chat", "synthesize">>
                     /\ Len(locals.steps) = 6 ->
                     /\ locals.steps = SubSeq(VoiceSteps, 1, 6)
                     /\ kept(locals.user_message)
                     /\ kept(locals.assistant_message)
                     /\ locals.assistant_message[1].id \notin spoken
                     /\ \A m \in Stored(locals.assistant_message) :
                            /\ m.role = "assistant"
                            /\ m.content = locals.assistant_text
                            /\ m.audio_url = None
              [] OTHER ->
                     \* no gateway failed: the audio commit found its row deleted
                     /\ locals.steps = SubSeq(VoiceSteps, 1, 7)
                     /\ locals.assistant_message[1].id \in removed

C19_InStore(object) == Stored(object) # {}

C19_InStoreOrDeleted(object) == Stored(object) # {} \/ object[1].id \in removed

\* C19 (as stated): when a gateway call of a voice request fails, the rows
\* the earlier steps committed are in the store: none after transcribe fails,
\* the user row after the chat call fails, the user row and the assistant row
\* without audio_url after synthesize fails.
C19_Original == C19_Holds(C19_InStore)

\* C19 (amended): when a gateway call of a voice request fails the request
\* rolls nothing back: each row the earlier steps committed is in the store
\* unless a concurrent delete_session or delete_agent has removed it: no row
\* and no further call after transcribe fails, the user row after the chat
\* call fails, the user row and the assistant row without audio_url after
\* synthesize fails.
C19_Theorem == C19_Holds(C19_InStoreOrDeleted)

C19_Witness ==
    /\ last.req.op = "voice_interaction"
    /\ last.status = HTTP_500_ERROR
    /\ last.loc.calls = <<"transcribe", "chat", "synthesize">>
    /\ Len(last.loc.steps) = 6
    /\ C19_InStore(last.loc.user_message)
    /\ C19_InStore(last.loc.assistant_message)

\* the rows of seq s of the sessions in the set kept, in order
RECURSIVE Keeping(_, _)
Keeping(s, kept) ==
    IF s = <<>> THEN <<>>
    ELSE IF Head(s).session_id \in kept THEN <<Head(s)>> \o Keeping(Tail(s), kept)
    ELSE Keeping(Tail(s), kept)

\* the steps of the two delete routes, on what is not the target or under it
C20_Step ==
    \A p \in Procs :
        (req[p].op \in {"delete_agent", "delete_session"} /\ Steps(p)) =>
            LET a == req[p].agent_id
                s == req[p].session_id
                OfOther == {t \in DOMAIN created.sessions : created.sessions[t] # a}
                Other == DOMAIN created.sessions \ {s}
            IN  CASE pc[p] = "delete_agent_commit" ->
                         /\ \A b \in DOMAIN agents \ {a} :
                                b \in DOMAIN agents' /\ agents'[b] = agents[b]
                         /\ \A t \in DOMAIN sessions :
                                sessions[t].agent_id # a =>
                                    t \in DOMAIN sessions' /\ sessions'[t] = sessions[t]
                         /\ Keeping(messages', OfOther) = Keeping(messages, OfOther)
                  [] pc[p] = "delete_session_commit" ->
                         /\ agents' = agents
                         /\ \A t \in DOMAIN sessions \ {s} :
                                t \in DOMAIN sessions' /\ sessions'[t] = sessions[t]
                         /\ Keeping(messages', Other) = Keeping(messages, Other)
                  [] OTHER ->
                         /\ UNCHANGED store
                         /\ pc'[p] = "done" => last'.status = HTTP_404_NOT_FOUND

\* C20: delete_agent(a) leaves every other agent, every session of another
\* agent and every message of such a session as it was; delete_session(a, s)
\* leaves every agent, every other session and every message of another
\* session as it was; a delete answered 404 leaves the store as it was.
C20_Theorem == [][C20_Step]_vars

C20_Witness ==
    /\ last.req.op = "delete_agent"
    /\ last.status = HTTP_204_NO_CONTENT
    /\ last.req.agent_id \notin DOMAIN agents
    /\ \E m \in Range(messages) : created.sessions[m.session_id] # last.req.agent_id

\* how many of the rows have the role and the session
Rows(rows, session_id, role) ==
    Cardinality({i \in 1..Len(rows) :
                     rows[i].session_id = session_id /\ rows[i].role = role})

\* C21: every stored session has at most as many "assistant" rows as "user"
\* rows, whatever sends interleave and whichever gateway calls fail: a request
\* inserts its assistant row only after it has committed its own user row
\* for the same session, so at every point of the order of insertion a
\* session has had no more assistant rows than user rows.
C21_Theorem ==
    /\ \A s \in DOMAIN sessions :
          Rows(messages, s, "assistant") <= Rows(messages, s, "user")
    /\ \A s \in DOMAIN created.sessions, n \in 0..Len(created.messages) :
          Rows(SubSeq(created.messages, 1, n), s, "assistant")
              <= Rows(SubSeq(created.messages, 1, n), s, "user")
    /\ \A p \in Procs :
          pc[p] = "save_assistant" =>
              /\ loc[p].user_message # <<>>
              /\ loc[p].user_message[1].role = "user"
              /\ loc[p].user_message[1].session_id = req[p].session_id
              /\ loc[p].user_message[1].id \in 1..Len(created.messages)
              /\ loc[p].assistant_message = <<>>

C21_Witness ==
    \E s \in DOMAIN sessions :
        /\ Rows(messages, s, "assistant") = 1
        /\ Rows(messages, s, "user") = 2
        /\ last.req.op \in SendOps
        /\ last.status = HTTP_500_ERROR

====
